---- MODULE Spec2Model ----
(***************************************************************************)
(* Model of tokio-postgres-macros/src/lib.rs: the derive macros FromRow    *)
(* (from_row) and TryFromRow (try_from_row), the attribute scan            *)
(* column_attr, and the evaluation of the generated conversion over a row. *)
(***************************************************************************)
EXTENDS Integers, Sequences, FiniteSets, TLC

VARIABLES
    pc,         \* position of the macro invocation / of the generated conversion
    macro,      \* "from_row" | "try_from_row" | "none"
    input,      \* the DeriveInput: [data, fields]
    fi,         \* number of fields the body closure has gone through
    body,       \* access expressions emitted so far (the `body` token stream)
    has_attr,   \* the Cell<bool> of try_from_row
    err_ty,     \* the tokens of `err_ty`: "Native" | "Opaque" | "unset"
    output,     \* the impl block returned by the macro
    row,        \* the row the generated conversion is applied to
    ri,         \* number of field expressions already evaluated
    rec,        \* values of the fields evaluated so far
    accesses,   \* row accesses and nested conversions performed, in order
    result,     \* outcome of the generated conversion
    attr_in,    \* argument of a direct call of column_attr
    attr_out    \* its result

vars == <<pc, macro, input, fi, body, has_attr, err_ty, output, row, ri, rec,
          accesses, result, attr_in, attr_out>>

(***************************************************************************)
(* Bounds                                                                  *)
(***************************************************************************)
MaxFields == 2

MaxAttrs == 2

(***************************************************************************)
(* Tokens and attributes                                                   *)
(***************************************************************************)
Ident(s) == [k |-> "Ident", s |-> s, lk |-> ""]

Punct(s) == [k |-> "Punct", s |-> s, lk |-> ""]

StrLit(s) == [k |-> "Literal", s |-> s, lk |-> "Str"]

IntLit(s) == [k |-> "Literal", s |-> s, lk |-> "Int"]

NoLit == [k |-> "", s |-> "", lk |-> ""]

\* TokenTree::to_string: a string literal prints with its quotes.
TokenToString(t) ==
    IF t.k = "Literal" /\ t.lk = "Str" THEN "\"" \o t.s \o "\"" ELSE t.s

\* syn::Attribute: the path segments, the shape of its Meta, the tokens of a Meta::List.
Attribute(path, meta, tokens) == [path |-> path, meta |-> meta, tokens |-> tokens]

ColumnList(tokens) == Attribute(<<"column">>, "List", tokens)

\* enum ColumnAttr
ColumnAttrSkip == [t |-> "Skip", lit |-> NoLit]

ColumnAttrFlatten == [t |-> "Flatten", lit |-> NoLit]

ColumnAttrNone == [t |-> "None", lit |-> NoLit]

ColumnAttrRename(lit) == [t |-> "Rename", lit |-> lit]

\* AttrClosure with a rename of the wrong shape ending the scan with ColumnAttr::None.
AttrClosureHalting(attr) ==
    IF attr.meta # "List" \/ attr.path = <<>> THEN <<>>
    ELSE IF Head(attr.path) # "column" \/ Len(attr.tokens) < 1 THEN <<>>
    ELSE LET first == TokenToString(attr.tokens[1]) IN
         IF first = "skip" THEN <<ColumnAttrSkip>>
         ELSE IF first = "flatten" THEN <<ColumnAttrFlatten>>
         ELSE IF first = "rename" THEN
              IF /\ Len(attr.tokens) >= 3
                 /\ attr.tokens[2].k = "Punct" /\ attr.tokens[2].s = "="
                 /\ attr.tokens[3].k = "Literal"
              THEN <<ColumnAttrRename(attr.tokens[3])>>
              ELSE <<ColumnAttrNone>>
         ELSE <<>>

\* The closure given to find_map: <<>> is None, <<a>> is Some(a).
\* Every `?` inside it returns None from the closure only.
AttrClosure(attr) ==
    IF attr.meta # "List" THEN <<>>
    ELSE IF attr.path = <<>> THEN <<>>
    ELSE IF Head(attr.path) # "column" THEN <<>>
    ELSE IF Len(attr.tokens) < 1 THEN <<>>
    ELSE LET first == TokenToString(attr.tokens[1]) IN
         IF first = "skip" THEN <<ColumnAttrSkip>>
         ELSE IF first = "flatten" THEN <<ColumnAttrFlatten>>
         ELSE IF first = "rename" THEN
              IF Len(attr.tokens) < 2 THEN <<>>
              ELSE IF attr.tokens[2].k = "Punct" /\ attr.tokens[2].s = "=" THEN
                   IF Len(attr.tokens) < 3 THEN <<>>
                   ELSE IF attr.tokens[3].k = "Literal"
                        THEN <<ColumnAttrRename(attr.tokens[3])>>
                        ELSE <<>>
              ELSE <<>>
         ELSE <<>>

\* Iterator::find_map: the first Some the closure returns, scanning from the left.
RECURSIVE FindMap(_)
FindMap(attrs) ==
    IF attrs = <<>> THEN <<>>
    ELSE IF AttrClosure(Head(attrs)) # <<>> THEN AttrClosure(Head(attrs))
    ELSE FindMap(Tail(attrs))

RECURSIVE FindMapLast(_)
FindMapLast(attrs) ==
    IF attrs = <<>> THEN <<>>
    ELSE IF FindMapLast(Tail(attrs)) # <<>> THEN FindMapLast(Tail(attrs))
    ELSE AttrClosure(Head(attrs))

\* column_attr keeping the last match instead of the first.
column_attr_last(attrs) ==
    IF FindMapLast(attrs) = <<>> THEN ColumnAttrNone ELSE FindMapLast(attrs)[1]

column_attr(attrs) ==
    IF FindMap(attrs) = <<>> THEN ColumnAttrNone ELSE FindMap(attrs)[1]


(***************************************************************************)
(* The derive input                                                        *)
(***************************************************************************)
\* syn::Field: ident is <<>> (None) or <<name>> (Some(name)).
Field(ident, attrs) == [ident |-> ident, attrs |-> attrs]

Names == {"id", "name", "profile"}

AttrSkip == ColumnList(<<Ident("skip")>>)

AttrFlatten == ColumnList(<<Ident("flatten")>>)

AttrRenameStr == ColumnList(<<Ident("rename"), Punct("="), StrLit("full_name")>>)

AttrRenameInt == ColumnList(<<Ident("rename"), Punct("="), IntLit("1")>>)

AttrRenameNoEq == ColumnList(<<Ident("rename"), StrLit("full_name")>>)

\* Attribute lists put on the fields of the records that are derived.
FieldAttrChoices ==
    { <<>>, <<AttrSkip>>, <<AttrFlatten>>, <<AttrRenameStr>>,
      <<AttrRenameNoEq, AttrFlatten>> }

\* Attributes a direct call of column_attr is given.
AttrUniverse ==
    { AttrSkip, AttrFlatten, AttrRenameStr, AttrRenameInt, AttrRenameNoEq,
      ColumnList(<<Ident("rename")>>),
      ColumnList(<<Ident("rename"), Punct("=")>>),
      ColumnList(<<Ident("rename"), Punct("="), Ident("full_name")>>),
      ColumnList(<<Ident("other"), Punct(","), Ident("skip")>>),
      ColumnList(<<StrLit("skip")>>),
      ColumnList(<<>>),
      Attribute(<<"serde">>, "List", <<Ident("skip")>>),
      Attribute(<<"column">>, "Path", <<>>),
      Attribute(<<"column">>, "NameValue", <<>>) }

SeqsUpTo(S, n) == UNION { [1..m -> S] : m \in 0..n }

Injective(f) == \A a, b \in DOMAIN f : f[a] = f[b] => a = b

\* struct S { n1: T1, ... }: every field has an ident, the idents are distinct.
NamedFieldLists ==
    { fs \in SeqsUpTo({ Field(<<n>>, a) : n \in Names, a \in FieldAttrChoices }, MaxFields) :
        Injective([j \in DOMAIN fs |-> fs[j].ident]) }

\* struct S(T1, ...): no field has an ident.
UnnamedFieldLists ==
    SeqsUpTo({ Field(<<>>, a) : a \in FieldAttrChoices }, MaxFields)

DeriveInput(data, layout, fields) == [data |-> data, layout |-> layout, fields |-> fields]

NoInput == DeriveInput("", "", <<>>)

DeriveInputs ==
    { DeriveInput("Struct", "Named", fs) : fs \in NamedFieldLists }
    \cup { DeriveInput("Struct", "Unnamed", fs) : fs \in UnnamedFieldLists }
    \cup { DeriveInput("Struct", "Unit", <<>>),
           DeriveInput("Enum", "", <<>>), DeriveInput("Union", "", <<>>) }

(***************************************************************************)
(* Generated access expressions                                            *)
(***************************************************************************)
\* One initializer of the generated `Self ...`: `slot: r.op(key) post,`.
Expr(slot, op, key, post) == [slot |-> slot, op |-> op, key |-> key, post |-> post]

DigitStr == <<"0", "1", "2", "3", "4", "5">>

\* Index::from(i), printed as an unsuffixed integer literal.
IndexLit(i) == IntLit(DigitStr[i + 1])

\* FromRowNamed with the Rename arm reading the column named like the field.
FromRowNamedOwnName(field) ==
    IF field.ident = <<>> THEN <<>>
    ELSE LET a == column_attr(field.attrs) IN
         IF a.t = "Flatten" THEN <<Expr(field.ident, "try_from", NoLit, "unwrap")>>
         ELSE IF a.t = "Skip" THEN <<Expr(field.ident, "default", NoLit, "")>>
         ELSE <<Expr(field.ident, "get", StrLit(field.ident[1]), "")>>

\* from_row, Fields::Named: the tokens emitted for one field.
FromRowNamed(field) ==
    IF field.ident = <<>> THEN <<>>
    ELSE LET a == column_attr(field.attrs) IN
         IF a.t = "Flatten" THEN <<Expr(field.ident, "try_from", NoLit, "unwrap")>>
         ELSE IF a.t = "Rename" THEN <<Expr(field.ident, "get", a.lit, "")>>
         ELSE IF a.t = "None" THEN <<Expr(field.ident, "get", StrLit(field.ident[1]), "")>>
         ELSE <<Expr(field.ident, "default", NoLit, "")>>

\* from_row, Fields::Unnamed: the tokens emitted for the field with index i.
FromRowUnnamed(i) == <<Expr(<<>>, "get", IndexLit(i), "")>>

\* try_from_row, Fields::Named: the tokens emitted for one field.
TryFromRowNamed(field) ==
    IF field.ident = <<>> THEN <<>>
    ELSE LET a == column_attr(field.attrs) IN
         IF a.t = "Flatten" THEN <<Expr(field.ident, "try_from", NoLit, "?")>>
         ELSE IF a.t = "Rename" THEN <<Expr(field.ident, "try_get", a.lit, "?")>>
         ELSE IF a.t = "None" THEN <<Expr(field.ident, "try_get", StrLit(field.ident[1]), "?")>>
         ELSE <<Expr(field.ident, "default", NoLit, "")>>

\* TryFromRowUnnamed counting the fields from 1.
TryFromRowUnnamedFromOne(i) == <<Expr(<<>>, "try_get", IndexLit(i + 1), "?")>>

\* try_from_row, Fields::Unnamed: the tokens emitted for the field with index i.
TryFromRowUnnamed(i) == <<Expr(<<>>, "try_get", IndexLit(i), "?")>>

\* try_from_row, Fields::Named: has_attr.set(true) in the Flatten arm.
SetsHasAttr(field) ==
    field.ident # <<>> /\ column_attr(field.attrs).t = "Flatten"

\* The choice made by the err_ty closure.
ErrTy(flag) == IF flag THEN "Opaque" ELSE "Native"

\* The delimiters put around the body.
Shape(layout) ==
    IF layout = "Named" THEN "Braces" ELSE IF layout = "Unnamed" THEN "Parens" ELSE "Unit"

Impl(trait, shape, b, e) == [trait |-> trait, shape |-> shape, body |-> b, err_ty |-> e]

NoImpl == Impl("", "", <<>>, "unset")

(***************************************************************************)
(* Rows and the evaluation of the generated conversion                     *)
(***************************************************************************)
Column(name, val) == [name |-> name, val |-> val]

\* A stored value of a type the field's type does not accept (FromSql fails).
WrongType == "<wrong type>"

\* ::std::default::Default::default()
DefaultValue == "<default>"

RowAnn == <<Column("id", "1"), Column("full_name", "Ann")>>

RowBob == <<Column("name", "Bob"), Column("bio", "hi"), Column("id", "7")>>

RowBad == <<Column("id", WrongType), Column("name", "Eve")>>

Rows == { RowAnn, RowBob, RowBad, <<>> }

\* The integer an unsuffixed integer literal denotes.
ParseIndex(s) == CHOOSE n \in 0..(Len(DigitStr) - 1) : DigitStr[n + 1] = s

\* RowIndex: a string finds the first column of that name, a usize the column at that position.
ColumnAt(r, key) ==
    IF key.lk = "Str"
    THEN IF \E j \in 1..Len(r) : r[j].name = key.s
         THEN CHOOSE j \in 1..Len(r) :
                  r[j].name = key.s /\ \A h \in 1..(j - 1) : r[h].name # key.s
         ELSE 0
    ELSE IF key.s \in { DigitStr[d] : d \in 1..Len(DigitStr) } /\ ParseIndex(key.s) < Len(r)
         THEN ParseIndex(key.s) + 1
         ELSE 0

Error(boxed, origin, reason, key) ==
    [boxed |-> boxed, origin |-> origin, reason |-> reason, key |-> key]

NoError == Error(FALSE, "", "", NoLit)

Outcome(tag, val, err) == [tag |-> tag, val |-> val, err |-> err]

\* Row::try_get(key): the value, or the row source's error.
TryGet(r, key) ==
    IF ColumnAt(r, key) = 0
    THEN Outcome("Err", "", Error(FALSE, "row", "column not found", key))
    ELSE IF r[ColumnAt(r, key)].val = WrongType
    THEN Outcome("Err", "", Error(FALSE, "row", "wrong type", key))
    ELSE Outcome("Val", r[ColumnAt(r, key)].val, NoError)

\* `?` in a function returning Result<_, E>: From::from(err) into E.
\* Into Box<dyn Error + Send + Sync> it boxes the error; into tokio_postgres::Error it is the identity.
Question(o, ety) ==
    IF o.tag = "Err" THEN Outcome("Err", "", [o.err EXCEPT !.boxed = (ety = "Opaque")])
    ELSE o

\* Result::unwrap and Row::get: an Err becomes a panic.
Unwrap(o) == IF o.tag = "Err" THEN Outcome("Panic", "", o.err) ELSE o

\* The type of a flattened field: struct Profile { bio: String } deriving TryFromRow.
NestedFields == <<Field(<<"bio">>, <<>>)>>

\* <Profile as TryFrom<&Row>>::try_from(r): the plan try_from_row generates for Profile, run on r.
NestedTryFrom(r) ==
    LET e == TryFromRowNamed(NestedFields[1])[1]
        o == Question(TryGet(r, e.key), ErrTy(SetsHasAttr(NestedFields[1])))
    IN  IF o.tag = "Val"
        THEN Outcome("Val", "Profile{" \o o.val \o "}", NoError)
        ELSE Outcome("Err", "", [o.err EXCEPT !.origin = "nested"])

\* The value of one initializer of the generated body, in a conversion whose Error type is ety.
EvalExpr(e, r, ety) ==
    IF e.op = "default" THEN Outcome("Val", DefaultValue, NoError)
    ELSE IF e.op = "get" THEN Unwrap(TryGet(r, e.key))
    ELSE IF e.op = "try_get" THEN Question(TryGet(r, e.key), ety)
    ELSE IF e.post = "unwrap" THEN Unwrap(NestedTryFrom(r))
    ELSE Question(NestedTryFrom(r), ety)

\* What an initializer asks of the row: nothing for a default value.
Access(e) == IF e.op = "default" THEN <<>> ELSE <<[op |-> e.op, key |-> e.key]>>

Result(tag, r, err) == [tag |-> tag, rec |-> r, err |-> err]

NoResult == Result("none", <<>>, NoError)

(***************************************************************************)
(* The macros, step by step                                                *)
(***************************************************************************)
\* Supported with the Enum | Union arm left empty like Fields::Unit.
SupportedAny(data) == data \in {"Struct", "Enum", "Union"}

\* Data::Struct is expanded; Data::Enum and Data::Union reach unimplemented!().
Supported(data) == data = "Struct"

\* The tokens one iteration of the field loop appends to the body.
FieldTokens(m, layout, field, i) ==
    IF m = "from_row"
    THEN IF layout = "Named" THEN FromRowNamed(field) ELSE FromRowUnnamed(i)
    ELSE IF layout = "Named" THEN TryFromRowNamed(field) ELSE TryFromRowUnnamed(i)

\* HasAttrStep storing whether this field is flattened: has_attr.set(is_flatten).
HasAttrStepOverwrite(flag, layout, field) == layout = "Named" /\ SetsHasAttr(field)

\* has_attr after one iteration of the field loop of try_from_row.
HasAttrStep(flag, layout, field) ==
    IF layout = "Named" /\ SetsHasAttr(field) THEN TRUE ELSE flag

\* Stops with an Err not ending the conversion.
StopsOnPanicOnly(o) == o.tag = "Panic"

\* An initializer that does not yield a value ends the conversion: `?` returns, a panic unwinds.
Stops(o) == o.tag # "Val"

RunIdle ==
    /\ row = <<>> /\ ri = 0 /\ rec = <<>> /\ accesses = <<>> /\ result = NoResult

AttrIdle == attr_in = <<>> /\ attr_out = ColumnAttrNone

Init ==
    /\ pc = "idle" /\ macro = "none" /\ input = NoInput /\ fi = 0 /\ body = <<>>
    /\ has_attr = FALSE /\ err_ty = "unset" /\ output = NoImpl
    /\ RunIdle /\ AttrIdle

\* The compiler invokes a derive macro on a type: parse the input; try_from_row creates
\* has_attr (false), from_row has no such cell.
Begin(m, inp) ==
    /\ pc = "idle"
    /\ pc' = "body" /\ macro' = m /\ input' = inp
    /\ fi' = 0 /\ body' = <<>> /\ err_ty' = "unset" /\ output' = NoImpl
    /\ has_attr' = FALSE
    /\ UNCHANGED <<row, ri, rec, accesses, result, attr_in, attr_out>>

\* One iteration of the loop over the fields, in either macro.
ExpandField ==
    /\ pc = "body" /\ Supported(input.data) /\ fi < Len(input.fields)
    /\ body' = body \o FieldTokens(macro, input.layout, input.fields[fi + 1], fi)
    /\ has_attr' = IF macro = "try_from_row"
                   THEN HasAttrStep(has_attr, input.layout, input.fields[fi + 1])
                   ELSE has_attr
    /\ fi' = fi + 1
    /\ UNCHANGED <<pc, macro, input, err_ty, output, row, ri, rec, accesses, result,
                   attr_in, attr_out>>

\* Data::Enum(_) | Data::Union(_) => unimplemented!(): the macro panics, nothing is returned.
Unsupported ==
    /\ pc = "body" /\ ~Supported(input.data)
    /\ pc' = "panicked"
    /\ UNCHANGED <<macro, input, fi, body, has_attr, err_ty, output, row, ri, rec,
                   accesses, result, attr_in, attr_out>>

\* The body is complete. from_row returns its impl; try_from_row goes on to err_ty.
BodyDone ==
    /\ pc = "body" /\ Supported(input.data) /\ fi = Len(input.fields)
    /\ IF macro = "from_row"
       THEN /\ output' = Impl("From", Shape(input.layout), body, "unset")
            /\ pc' = "emitted"
       ELSE /\ output' = output
            /\ pc' = "err_ty"
    /\ UNCHANGED <<macro, input, fi, body, has_attr, err_ty, row, ri, rec, accesses,
                   result, attr_in, attr_out>>

\* try_from_row: the err_ty closure reads has_attr, the impl is returned.
ChooseErrTy ==
    /\ pc = "err_ty"
    /\ err_ty' = ErrTy(has_attr)
    /\ output' = Impl("TryFrom", Shape(input.layout), body, ErrTy(has_attr))
    /\ pc' = "emitted"
    /\ UNCHANGED <<macro, input, fi, body, has_attr, row, ri, rec, accesses, result,
                   attr_in, attr_out>>

\* The generated from / try_from is called on a row.
Call(r) ==
    /\ pc = "emitted"
    /\ pc' = "run" /\ row' = r /\ ri' = 0 /\ rec' = <<>> /\ accesses' = <<>>
    /\ result' = NoResult
    /\ UNCHANGED <<macro, input, fi, body, has_attr, err_ty, output, attr_in, attr_out>>

\* The next initializer of `Self ...` is evaluated, in the order written.
EvalField ==
    /\ pc = "run" /\ ri < Len(output.body)
    /\ LET e == output.body[ri + 1]
           o == EvalExpr(e, row, output.err_ty)
       IN  /\ accesses' = accesses \o Access(e)
           /\ IF Stops(o)
              THEN /\ pc' = "returned"
                   /\ result' = Result(o.tag, <<>>, o.err)
                   /\ rec' = <<>>
                   /\ ri' = ri
              ELSE /\ pc' = pc
                   /\ result' = result
                   /\ rec' = Append(rec, [slot |-> e.slot, val |-> o.val])
                   /\ ri' = ri + 1
    /\ UNCHANGED <<macro, input, fi, body, has_attr, err_ty, output, row, attr_in, attr_out>>

\* Every initializer has a value: Self ... / Ok(Self ...) is returned.
Return ==
    /\ pc = "run" /\ ri = Len(output.body)
    /\ pc' = "returned"
    /\ result' = Result("Ok", rec, NoError)
    /\ UNCHANGED <<macro, input, fi, body, has_attr, err_ty, output, row, ri, rec,
                   accesses, attr_in, attr_out>>

\* The invocation is over; the next derive starts from scratch.
\* has_attr keeps its last value here so that its re-creation in Begin is observable.
Reset ==
    /\ pc \in {"returned", "panicked"}
    /\ pc' = "idle" /\ macro' = "none" /\ input' = NoInput /\ fi' = 0 /\ body' = <<>>
    /\ err_ty' = "unset" /\ output' = NoImpl
    /\ row' = <<>> /\ ri' = 0 /\ rec' = <<>> /\ accesses' = <<>> /\ result' = NoResult
    /\ UNCHANGED <<has_attr, attr_in, attr_out>>

Next ==
    \/ \E m \in {"from_row", "try_from_row"}, inp \in DeriveInputs : Begin(m, inp)
    \/ ExpandField
    \/ Unsupported
    \/ BodyDone
    \/ ChooseErrTy
    \/ \E r \in Rows : Call(r)
    \/ EvalField
    \/ Return
    \/ Reset

Spec == Init /\ [][Next]_vars

(***************************************************************************)
(* column_attr called on its own                                           *)
(***************************************************************************)
InitAttr ==
    /\ pc = "attr" /\ macro = "none" /\ input = NoInput /\ fi = 0 /\ body = <<>>
    /\ has_attr = FALSE /\ err_ty = "unset" /\ output = NoImpl
    /\ RunIdle
    /\ attr_in \in SeqsUpTo(AttrUniverse, MaxAttrs)
    /\ attr_out = ColumnAttrNone

CallColumnAttr ==
    /\ pc = "attr"
    /\ pc' = "resolved"
    /\ attr_out' = column_attr(attr_in)
    /\ UNCHANGED <<macro, input, fi, body, has_attr, err_ty, output, row, ri, rec,
                   accesses, result, attr_in>>

NextAttr == CallColumnAttr

SpecAttr == InitAttr /\ [][NextAttr]_vars

(***************************************************************************)
(* Vocabulary of the properties                                            *)
(***************************************************************************)
Resolved(j) == column_attr(input.fields[j].attrs)

HasFlattenField == \E j \in 1..Len(input.fields) : Resolved(j).t = "Flatten"

Compiled == pc \in {"emitted", "run", "returned"}

RECURSIVE AccessSeq(_)
AccessSeq(exprs) ==
    IF exprs = <<>> THEN <<>> ELSE Access(Head(exprs)) \o AccessSeq(Tail(exprs))

IsPrefix(a, b) == Len(a) <= Len(b) /\ SubSeq(b, 1, Len(a)) = a

(***************************************************************************)
(* C1: for every struct-like record, named or positional, the Error type   *)
(* of the generated TryFrom is the opaque boxed error if and only if some  *)
(* field of the record is annotated Flatten, and tokio_postgres::Error     *)
(* otherwise.                                                              *)
(***************************************************************************)
C1_OpaqueIffFlatten ==
    (Compiled /\ macro = "try_from_row") =>
        /\ output.err_ty = "Opaque" <=> HasFlattenField
        /\ output.err_ty = "Native" <=> ~HasFlattenField

(***************************************************************************)
(* C2: in a named or positional record, in both macros, the initializer of *)
(* a field annotated Skip is the default value and asks nothing of the     *)
(* row.                                                                    *)
(***************************************************************************)
C2_SkipIsDefaultNoAccess ==
    Compiled =>
        \A j \in 1..Len(input.fields) :
            Resolved(j).t = "Skip" =>
                /\ j <= Len(output.body)
                /\ output.body[j].op = "default"
                /\ Access(output.body[j]) = <<>>

(***************************************************************************)
(* C3: for a field annotated Flatten, from_row generates a call of the     *)
(* nested type's infallible conversion on the same row r and never of its  *)
(* fallible conversion; try_from_row generates a call of the nested type's *)
(* fallible conversion on r followed by `?`.                               *)
(***************************************************************************)
C3_FlattenUsesConversionOfTheMode ==
    Compiled =>
        \A j \in 1..Len(input.fields) :
            Resolved(j).t = "Flatten" =>
                /\ j <= Len(output.body)
                /\ macro = "from_row" =>
                       output.body[j].op = "from" /\ output.body[j].op # "try_from"
                /\ macro = "try_from_row" =>
                       output.body[j].op = "try_from" /\ output.body[j].post = "?"

(***************************************************************************)
(* Annotations as the specification describes them                         *)
(***************************************************************************)
IsColumnList(a) == a.meta = "List" /\ a.path # <<>> /\ a.path[1] = "column"

LeadsWith(a, word) ==
    IsColumnList(a) /\ Len(a.tokens) >= 1 /\ a.tokens[1] = Ident(word)

\* `rename = <literal>`
RenameShape(a) ==
    /\ LeadsWith(a, "rename") /\ Len(a.tokens) >= 3
    /\ a.tokens[2] = Punct("=") /\ a.tokens[3].k = "Literal"

\* `rename = "<string>"`
RenameStringShape(a) == RenameShape(a) /\ a.tokens[3].lk = "Str"

Recognized(a) == LeadsWith(a, "skip") \/ LeadsWith(a, "flatten") \/ RenameShape(a)

MarkerOf(a) ==
    IF LeadsWith(a, "skip") THEN ColumnAttrSkip
    ELSE IF LeadsWith(a, "flatten") THEN ColumnAttrFlatten
    ELSE ColumnAttrRename(a.tokens[3])

FirstRecognized(attrs) ==
    LET hits == { j \in 1..Len(attrs) : Recognized(attrs[j]) } IN
    IF hits = {} THEN ColumnAttrNone
    ELSE MarkerOf(attrs[CHOOSE j \in hits : \A h \in hits : j <= h])

Without(attrs, Dropped(_)) == SelectSeq(attrs, LAMBDA a : ~Dropped(a))

(***************************************************************************)
(* C4: column_attr resolves every annotation list to exactly one           *)
(* ColumnAttr, the one of the first annotation, scanning from the left,    *)
(* that is a recognized marker (skip, flatten, rename = <key>); later      *)
(* markers are ignored and without a recognized marker the result is None. *)
(***************************************************************************)
C4_FirstRecognizedMarkerWins ==
    pc = "resolved" => attr_out = FirstRecognized(attr_in)

C4_Witness ==
    /\ pc = "resolved" /\ Len(attr_in) >= 2
    /\ Recognized(attr_in[1]) /\ Recognized(attr_in[2])
    /\ MarkerOf(attr_in[1]) # MarkerOf(attr_in[2])
    /\ attr_out = MarkerOf(attr_in[1])

RenameNotString(a) == LeadsWith(a, "rename") /\ ~RenameStringShape(a)

RenameIllShaped(a) == LeadsWith(a, "rename") /\ ~RenameShape(a)

FieldOutcome(j) == EvalExpr(output.body[j], row, output.err_ty)

Failing == { j \in 1..Len(output.body) : FieldOutcome(j).tag = "Err" }

FirstFailing == CHOOSE j \in Failing : \A h \in Failing : j <= h

(***************************************************************************)
(* C6: a fallible conversion in which some field fails returns the error   *)
(* of the first failing field in declaration order as soon as that field   *)
(* is reached: nothing is asked of the row for a later field, no partial   *)
(* record is returned, and the error is that field's alone.                *)
(***************************************************************************)
C6_FirstFailureWins ==
    (pc = "returned" /\ macro = "try_from_row") =>
        IF Failing # {}
        THEN /\ result = Result("Err", <<>>, FieldOutcome(FirstFailing).err)
             /\ accesses = AccessSeq(SubSeq(output.body, 1, FirstFailing))
             /\ ri = FirstFailing - 1
        ELSE /\ result.tag = "Ok"
             /\ Len(result.rec) = Len(input.fields)

C6_Witness ==
    /\ pc = "returned" /\ macro = "try_from_row"
    /\ Cardinality(Failing) >= 2
    /\ \E j \in Failing : FieldOutcome(j).err # FieldOutcome(FirstFailing).err
    /\ result.err = FieldOutcome(FirstFailing).err
    /\ Len(accesses) < Len(AccessSeq(output.body))

(***************************************************************************)
(* C7: for an enum or a union both macros abort with the unimplemented     *)
(* failure and return no impl at all; for a struct (named, positional or   *)
(* unit) the expansion never aborts, can always go on until the impl is    *)
(* returned, and returns an impl.                                          *)
(***************************************************************************)
C7_OnlyStructsCompile ==
    /\ input.data \in {"Enum", "Union"} =>
           pc \in {"body", "panicked"} /\ output = NoImpl
    /\ pc = "body" /\ input.data \in {"Enum", "Union"} => ENABLED Unsupported
    /\ pc = "panicked" => input.data \in {"Enum", "Union"}
    /\ pc \in {"body", "err_ty"} /\ input.data = "Struct" =>
           ENABLED (ExpandField \/ BodyDone \/ ChooseErrTy)
    /\ Compiled =>
           /\ input.data = "Struct"
           /\ output.trait = (IF macro = "from_row" THEN "From" ELSE "TryFrom")
           /\ output.shape = Shape(input.layout)

C7_Witness == pc = "panicked" /\ input.data = "Enum" /\ output = NoImpl

(***************************************************************************)
(* C8: the generated body holds exactly one initializer per declared       *)
(* field, in declaration order; a named field without annotation is looked *)
(* up by its declared name, the i-th field (from 0) of a positional record *)
(* by index i; the row is accessed in the order of the declarations.       *)
(***************************************************************************)
C8_OneAccessPerFieldInOrder ==
    Compiled =>
        /\ Len(output.body) = Len(input.fields)
        /\ \A j \in 1..Len(input.fields) :
               /\ output.body[j].slot = input.fields[j].ident
               /\ (input.layout = "Named" /\ Resolved(j).t = "None") =>
                      /\ output.body[j].op \in {"get", "try_get"}
                      /\ output.body[j].key = StrLit(input.fields[j].ident[1])
               /\ input.layout = "Unnamed" =>
                      /\ output.body[j].op \in {"get", "try_get"}
                      /\ output.body[j].key.lk = "Int"
                      /\ ParseIndex(output.body[j].key.s) = j - 1
        /\ IsPrefix(accesses, AccessSeq(output.body))
        /\ \A j \in 1..Len(rec) : rec[j].slot = input.fields[j].ident

C8_Witness ==
    /\ pc = "returned" /\ result.tag = "Ok" /\ macro = "try_from_row"
    /\ input.layout = "Unnamed" /\ Len(input.fields) = 2
    /\ accesses = <<[op |-> "try_get", key |-> IntLit("0")],
                    [op |-> "try_get", key |-> IntLit("1")]>>

ScenarioFields == <<Field(<<"id">>, <<>>), Field(<<"name">>, <<AttrRenameStr>>)>>

ScenarioRun ==
    /\ pc = "returned" /\ macro = "from_row" /\ row = RowAnn
    /\ input = DeriveInput("Struct", "Named", ScenarioFields)

(***************************************************************************)
(* C9: in both macros the initializer of a field whose resolved attribute  *)
(* is Rename(x) looks up x, not the field's name; {id, name renamed to     *)
(* "full_name"} over the row {id: 1, full_name: "Ann"} converts infallibly *)
(* to {id: 1, name: "Ann"}.                                                *)
(***************************************************************************)
C9_RenameLooksUpKey ==
    /\ (Compiled /\ input.layout = "Named") =>
           \A j \in 1..Len(input.fields) :
               Resolved(j).t = "Rename" =>
                   /\ output.body[j].op = (IF macro = "from_row" THEN "get" ELSE "try_get")
                   /\ output.body[j].key = Resolved(j).lit
    /\ ScenarioRun =>
           result = Result("Ok", <<[slot |-> <<"id">>, val |-> "1"],
                                   [slot |-> <<"name">>, val |-> "Ann"]>>, NoError)

C9_Witness == ScenarioRun /\ result.tag = "Ok" /\ accesses[2].key = StrLit("full_name")

(***************************************************************************)
(* C10: in try_from_row has_attr is false when the field loop starts, only *)
(* goes from false to true within an invocation, and is read for the Error *)
(* type only after every field has been gone through; so the Error type is *)
(* opaque exactly when some field of the named record resolves to Flatten, *)
(* wherever it stands and whatever an earlier invocation left behind.      *)
(***************************************************************************)
C10_FlagRaisedOnlyAndReadLast ==
    /\ []((pc = "body" /\ macro = "try_from_row" /\ fi = 0) => ~has_attr)
    /\ [][(has_attr /\ pc # "idle") => has_attr']_vars
    /\ [][err_ty' # err_ty =>
              \/ err_ty' = "unset"
              \/ fi = Len(input.fields) /\ Len(body) = Len(input.fields)
                 /\ err_ty' = ErrTy(has_attr)]_vars
    /\ []((Compiled /\ macro = "try_from_row" /\ input.layout = "Named") =>
              (output.err_ty = "Opaque" <=> HasFlattenField))

C10_Witness ==
    /\ pc = "emitted" /\ macro = "try_from_row" /\ Len(input.fields) = 2
    /\ Resolved(1).t = "Flatten" /\ Resolved(2).t # "Flatten"
    /\ has_attr /\ output.err_ty = "Opaque"

====
